---- MODULE Spec2Model ----
(***************************************************************************)
(* Model of src/app.py: the pellet Sample Session (SessionState and the    *)
(* Flask handlers that drive it), the reading queue filled by the          *)
(* SerialReader thread, and the pellets table.                             *)
(*                                                                         *)
(* Request handlers run on request threads (Flask's threaded development   *)
(* server).  Every access to a shared object (a field of `session`, the    *)
(* reading queue, one SQL statement) is one step of the thread; the        *)
(* handler's purely local computation is folded into the adjacent step.    *)
(* Spec allows every interleaving of the request threads; SpecSeq runs     *)
(* each handler to completion before another request thread may move.      *)
(***************************************************************************)
EXTENDS Integers, Sequences, FiniteSets, TLC

VARIABLES
    session,        \* SessionState: active, pellet_id, next_index, last_value, last_time
    lock,           \* SessionState.lock: its owner, or NoThread
    reading_queue,  \* reading_queue: Queue of parsed values
    pellets,        \* the pellets table: id -> row
    pc,             \* request thread -> position in its handler
    loc,            \* request thread -> the handler's local variables
    sent,           \* history: every value the SerialReader has put, in order
    finalized_by,   \* history: id -> the handlers whose finalize_pellet UPDATE ran, in order
    nops,           \* history: number of requests begun so far
    limit,          \* the run's budget: requests served, values delivered
    obs,            \* history kept by SpecSeq: the state the running request found
    call,           \* one call of parse_value: its argument and, once made, its result
    reader,         \* SerialReader: _ser, port_open, last_raw, last_error
    port,           \* the serial port: pyserial importable, device connected, handle open
    frames,         \* history: the non-empty lines the SerialReader has read, in order
    opens           \* history: how often the port was opened (counted up to MaxOpens)

vars == <<session, lock, reading_queue, pellets, pc, loc, sent, finalized_by, nops, limit, obs,
          call, reader, port, frames, opens>>

(***************************** bounds **************************************)
MaxOps == 3         \* requests served, over all request threads
MaxSent == 5        \* values the SerialReader delivers, one request at a time
MaxSentConc == 2    \* values the SerialReader delivers, requests interleaved
MaxValue == 2       \* device and manual values range over 1..MaxValue
MaxLen == 4         \* characters in a string given to parse_value
MaxFrames == 2      \* non-empty lines the SerialReader reads from the device
MaxFrameLen == 2    \* characters in a frame the device sends
MaxOpens == 2       \* successful opens of the port that the history tells apart
MaxBacklog == 2     \* values already queued when the first request arrives

(************************** program constants ******************************)
NumSlots == 5       \* p1..p5
None == -1          \* Python None / SQL NULL (values and ids are >= 0)
Timestamp == 0      \* datetime.now().isoformat(...): some non-None time

Threads == {1, 2}     \* request threads (identical workers)
NoThread == 0
Values == 1..MaxValue
Slots == 1..NumSlots

(***************************** helpers *************************************)
EmptyRow == [p |-> [i \in Slots |-> None], avg |-> <<>>, mn |-> None, mx |-> None, done |-> 0]

NoSnap == [active |-> FALSE, pellet_id |-> None, next_index |-> 0, queue |-> <<>>,
           pellets |-> <<>>]
NoResp == [code |-> 0, error |-> "", data |-> <<>>]

IdleLoc == [op |-> "none", val |-> None, idx |-> None, pid |-> None, tmp |-> None,
            applied |-> <<>>, row |-> <<>>, k |-> 0, resp |-> NoResp]

\* jsonify(...), status
Ok(data) == [code |-> 200, error |-> "", data |-> data]
Err(code, msg) == [code |-> code, error |-> msg, data |-> <<>>]

\* The session, queue and table as an operation finds them (history, for the claims).
Snapshot == [active |-> session.active, pellet_id |-> session.pellet_id,
             next_index |-> session.next_index, queue |-> reading_queue,
             pellets |-> pellets]

RECURSIVE SumSeq(_)
SumSeq(s) == IF s = <<>> THEN 0 ELSE Head(s) + SumSeq(Tail(s))

RECURSIVE MinSeq(_)
MinSeq(s) == IF Len(s) = 1 THEN Head(s)
             ELSE LET m == MinSeq(Tail(s)) IN IF Head(s) < m THEN Head(s) ELSE m

RECURSIVE MaxSeq(_)
MaxSeq(s) == IF Len(s) = 1 THEN Head(s)
             ELSE LET m == MaxSeq(Tail(s)) IN IF Head(s) > m THEN Head(s) ELSE m

\* nums = [v for v in vals if isinstance(v, (int, float)) and v is not None]
RECURSIVE NumsFrom(_, _)
NumsFrom(row, i) == IF i > NumSlots THEN <<>>
                    ELSE IF row[i] # None THEN <<row[i]>> \o NumsFrom(row, i + 1)
                    ELSE NumsFrom(row, i + 1)

Nums(row) == NumsFrom(row, 1)

\* Mutant of Average: divides by the number of slots, not of values.
AverageOverSlots(nums) == IF nums # <<>> THEN <<SumSeq(nums), NumSlots>> ELSE <<>>

\* avg = sum(nums) / len(nums), kept as the exact fraction <<sum, len>>; <<>> is None.
Average(nums) == IF nums # <<>> THEN <<SumSeq(nums), Len(nums)>> ELSE <<>>
Minimum(nums) == IF nums # <<>> THEN MinSeq(nums) ELSE None
Maximum(nums) == IF nums # <<>> THEN MaxSeq(nums) ELSE None

\* UPDATE pellets SET p<idx>=? WHERE id=?  (no row matches an unknown or NULL id;
\* the statement raises "no such column" for an idx outside p1..p5, see SaveRaises)
SavePoint(tbl, pid, idx, val) ==
    IF pid \in DOMAIN tbl /\ idx \in Slots THEN [tbl EXCEPT ![pid].p[idx] = val] ELSE tbl

\* col = f"p{idx}" names no column of the table
SaveRaises(idx) == idx \notin Slots

\* UPDATE pellets SET avg=?, min=?, max=?, done=1 WHERE id=?
FinalizeUpdate(tbl, pid, row) ==
    IF pid \in DOMAIN tbl
    THEN [tbl EXCEPT ![pid].avg = Average(Nums(row)),
                     ![pid].mn = Minimum(Nums(row)),
                     ![pid].mx = Maximum(Nums(row)),
                     ![pid].done = 1]
    ELSE tbl

\* k-th assignment of SessionState.reset
ResetField(s, k) ==
    CASE k = 1 -> [s EXCEPT !.active = FALSE]
      [] k = 2 -> [s EXCEPT !.pellet_id = None]
      [] k = 3 -> [s EXCEPT !.next_index = 1]
      [] k = 4 -> [s EXCEPT !.last_value = None]
      [] OTHER -> [s EXCEPT !.last_time = None]

\* k-th assignment of SessionState.start
StartField(s, k, pid) ==
    CASE k = 1 -> [s EXCEPT !.active = TRUE]
      [] k = 2 -> [s EXCEPT !.pellet_id = pid]
      [] k = 3 -> [s EXCEPT !.next_index = 1]
      [] k = 4 -> [s EXCEPT !.last_value = None]
      [] OTHER -> [s EXCEPT !.last_time = None]

NumFields == 5

(***************************** parse_value *********************************)
\* A string is a sequence of characters; the characters of the model: the signs,
\* the decimal point, three digits, a blank and a letter.
Sign == {"+", "-"}
Digit == {"0", "5", "9"}
Alphabet == Sign \cup Digit \cup {".", " ", "m"}
Strings(n) == UNION {[1..k -> Alphabet] : k \in 0..n}

DigitValue(c) == CASE c = "0" -> 0 [] c = "5" -> 5 [] OTHER -> 9

RECURSIVE Pow10(_)
Pow10(n) == IF n = 0 THEN 1 ELSE 10 * Pow10(n - 1)

\* A float is kept exactly, as a whole number of units of 10^-MaxLen (no string of
\* the model has more fractional digits).
Unit == Pow10(MaxLen)
LowerBound == 0
UpperBound == 50

\* s.strip()
RECURSIVE LStrip(_)
LStrip(s) == IF s # <<>> /\ Head(s) = " " THEN LStrip(Tail(s)) ELSE s

RECURSIVE RStrip(_)
RStrip(s) == IF s # <<>> /\ s[Len(s)] = " " THEN RStrip(SubSeq(s, 1, Len(s) - 1)) ELSE s

Strip(s) == RStrip(LStrip(s))

\* \d+ from position i (a digit): the position of the last digit it takes (greedy)
RECURSIVE DigitsEnd(_, _)
DigitsEnd(s, i) == IF i + 1 <= Len(s) /\ s[i + 1] \in Digit THEN DigitsEnd(s, i + 1) ELSE i

\* Mutant of MatchEnd: the fractional part is not part of the token ([-+]?\d+).
MatchEndInteger(s, i) ==
    LET d == IF s[i] \in Sign THEN i + 1 ELSE i
    IN IF d > Len(s) THEN 0
       ELSE IF s[d] \notin Digit THEN 0
       ELSE DigitsEnd(s, d)

\* VAL_RE = [-+]?\d+(?:\.\d+)? tried at position i: the position where the match
\* ends, 0 when there is none.
MatchEnd(s, i) ==
    LET d == IF s[i] \in Sign THEN i + 1 ELSE i
    IN IF d > Len(s) THEN 0
       ELSE IF s[d] \notin Digit THEN 0
       ELSE LET e == DigitsEnd(s, d)
            IN IF e + 2 <= Len(s) /\ s[e + 1] = "." /\ s[e + 2] \in Digit
               THEN DigitsEnd(s, e + 2)
               ELSE e

\* VAL_RE.search(s): the match at the leftmost position that has one (m.group(0));
\* <<>> when there is none.
RECURSIVE SearchFrom(_, _)
SearchFrom(s, i) ==
    IF i > Len(s) THEN <<>>
    ELSE IF MatchEnd(s, i) # 0 THEN SubSeq(s, i, MatchEnd(s, i))
    ELSE SearchFrom(s, i + 1)

Search(s) == SearchFrom(s, 1)

\* The digits of a numeral read left to right: <<mantissa, fractional digits>>.
RECURSIVE ReadDigits(_, _, _, _)
ReadDigits(tok, i, mant, frac) ==
    IF i > Len(tok) THEN <<mant, frac>>
    ELSE IF tok[i] = "." THEN ReadDigits(tok, i + 1, mant, 0)
    ELSE ReadDigits(tok, i + 1, 10 * mant + DigitValue(tok[i]),
                    IF frac >= 0 THEN frac + 1 ELSE frac)

\* float(m.group(0))
Float(tok) ==
    LET body == IF tok[1] \in Sign THEN Tail(tok) ELSE tok
        r == ReadDigits(body, 1, 0, -1)
        frac == IF r[2] < 0 THEN 0 ELSE r[2]
        magnitude == r[1] * Pow10(MaxLen - frac)
    IN IF tok[1] = "-" THEN 0 - magnitude ELSE magnitude

\* parse_value(s)
ParseValue(s) ==
    LET t == Strip(s)
    IN IF t = <<>> THEN None
       ELSE LET m == Search(t)
            IN IF m = <<>> THEN None
               ELSE IF LowerBound * Unit <= Float(m) /\ Float(m) <= UpperBound * Unit
                    THEN Float(m)
                    ELSE None

NoCall == [s |-> <<>>, done |-> FALSE, result |-> None]

\* SerialReader.__init__.  The specifications that follow the requests stand
\* LinkPut for the reader and leave its own state and the port as they start.
NoError == "none"     \* last_error = None (the errors are strings)
NoLine == <<>>        \* last_raw = None (a recorded line is never empty)
NewReader == [ser |-> None, port_open |-> FALSE, last_raw |-> NoLine, last_error |-> NoError]
Handle == 1
NoPort == [driver |-> TRUE, present |-> FALSE, handle_open |-> FALSE]
LinkUnused == reader = NewReader /\ port = NoPort /\ frames = <<>> /\ opens = 0
link == <<reader, port, frames, opens>>

(******************************* Init **************************************)
\* SessionState(), Queue(), an empty table, no request in progress
InitState ==
    /\ session = [active |-> FALSE, pellet_id |-> None, next_index |-> 1,
                  last_value |-> None, last_time |-> None]
    /\ lock = NoThread
    /\ reading_queue = <<>>
    /\ pellets = <<>>
    /\ pc = [t \in Threads |-> "idle"]
    /\ loc = [t \in Threads |-> IdleLoc]
    /\ sent = <<>>
    /\ finalized_by = <<>>
    /\ nops = 0

Init ==
    /\ InitState
    /\ limit = [ops |-> MaxOps, sent |-> MaxSentConc]
    /\ obs = [req |-> NoSnap, iter |-> NoSnap]
    /\ call = NoCall
    /\ LinkUnused

Goto(t, l) == pc' = [pc EXCEPT ![t] = l]
Set(t, r) == loc' = [loc EXCEPT ![t] = r]
Respond(t, r) == /\ pc' = [pc EXCEPT ![t] = "ret"]
                 /\ loc' = [loc EXCEPT ![t].resp = r]

hist == <<sent, finalized_by, nops>>

\* A request arrives and is served by an idle request thread; the workers are
\* identical, so it is the first idle one.
Begin(t) ==
    /\ pc[t] = "idle"
    /\ \A u \in Threads : u < t => pc[u] # "idle"
    /\ nops < limit.ops
    /\ nops' = nops + 1

(************************** SerialReader.run *******************************)
\* A frame whose parse_value result is val: self._queue.put(val)
LinkPut(val) ==
    /\ Len(sent) < limit.sent
    /\ reading_queue' = Append(reading_queue, val)
    /\ sent' = Append(sent, val)
    /\ UNCHANGED <<session, lock, pellets, pc, loc, finalized_by, nops>>

(************************* SessionState.reset ******************************)
\* session.stop() -> reset(): `with self.lock`, then the five assignments.
\* Taking the lock is folded into the first assignment, releasing it into the last.
ResetStep(t) ==
    /\ pc[t] = "reset"
    /\ loc[t].k = 1 => lock = NoThread
    /\ session' = ResetField(session, loc[t].k)
    /\ IF loc[t].k < NumFields
       THEN /\ lock' = t
            /\ Set(t, [loc[t] EXCEPT !.k = @ + 1])
            /\ UNCHANGED pc
       ELSE /\ lock' = NoThread
            /\ CASE loc[t].op = "poll" ->
                       /\ Goto(t, "p_get")
                       /\ Set(t, [loc[t] EXCEPT !.k = 0])
                 [] loc[t].op = "finish" ->
                       Respond(t, Ok(<<loc[t].pid>>))
                 [] OTHER ->
                       Respond(t, Ok(<<>>))
    /\ UNCHANGED <<reading_queue, pellets, hist>>

(*************************** finalize_pellet *******************************)
\* row = SELECT p1..p5 WHERE id=?; row["p1"] raises when no row matches
\* (the errorhandler answers 500 and the handler ends there).
FinalizeRead(t) ==
    /\ pc[t] = "fin_read"
    /\ IF loc[t].pid \in DOMAIN pellets
       THEN /\ Goto(t, "fin_write")
            /\ Set(t, [loc[t] EXCEPT !.row = pellets[loc[t].pid].p])
       ELSE Respond(t, Err(500, "exception"))
    /\ UNCHANGED <<session, lock, reading_queue, pellets, hist>>

\* the UPDATE ... done=1 and commit; the caller's session.stop() follows
FinalizeWrite(t) ==
    /\ pc[t] = "fin_write"
    /\ pellets' = FinalizeUpdate(pellets, loc[t].pid, loc[t].row)
    /\ finalized_by' = [finalized_by EXCEPT ![loc[t].pid] = Append(@, loc[t].op)]
    /\ Goto(t, "reset")
    /\ Set(t, [loc[t] EXCEPT !.k = 1])
    /\ UNCHANGED <<session, lock, reading_queue, sent, nops>>

(*************************** /api/start_pellet *****************************)
\* Mutant of StartBegin: starting a sample discards the readings still queued.
StartBeginFlushing(t) ==
    /\ Begin(t)
    /\ Goto(t, "st_insert")
    /\ Set(t, [IdleLoc EXCEPT !.op = "start"])
    /\ reading_queue' = <<>>
    /\ UNCHANGED <<session, lock, pellets, sent, finalized_by>>

StartBegin(t) ==
    /\ Begin(t)
    /\ Goto(t, "st_insert")
    /\ Set(t, [IdleLoc EXCEPT !.op = "start"])
    /\ UNCHANGED <<session, lock, reading_queue, pellets, sent, finalized_by>>

\* INSERT INTO pellets ...; pid = cur.lastrowid
StartInsert(t) ==
    /\ pc[t] = "st_insert"
    /\ pellets' = Append(pellets, EmptyRow)
    /\ finalized_by' = Append(finalized_by, <<>>)
    /\ Goto(t, "st_set")
    /\ Set(t, [loc[t] EXCEPT !.pid = Len(pellets) + 1, !.k = 1])
    /\ UNCHANGED <<session, lock, reading_queue, sent, nops>>

\* session.start(pid): `with self.lock`, then the five assignments
StartSet(t) ==
    /\ pc[t] = "st_set"
    /\ loc[t].k = 1 => lock = NoThread
    /\ session' = StartField(session, loc[t].k, loc[t].pid)
    /\ IF loc[t].k < NumFields
       THEN /\ lock' = t
            /\ Set(t, [loc[t] EXCEPT !.k = @ + 1])
            /\ UNCHANGED pc
       ELSE /\ lock' = NoThread
            /\ Respond(t, Ok(<<loc[t].pid>>))
    /\ UNCHANGED <<reading_queue, pellets, hist>>

(*************************** /api/cancel_pellet ****************************)
\* Mutant of CancelBegin: cancel ends the sample the way finish does.
CancelBeginFinalizing(t) ==
    /\ Begin(t)
    /\ Goto(t, "f_active")
    /\ Set(t, [IdleLoc EXCEPT !.op = "cancel"])
    /\ UNCHANGED <<session, lock, reading_queue, pellets, sent, finalized_by>>

CancelBegin(t) ==
    /\ Begin(t)
    /\ Goto(t, "reset")
    /\ Set(t, [IdleLoc EXCEPT !.op = "cancel", !.k = 1])
    /\ UNCHANGED <<session, lock, reading_queue, pellets, sent, finalized_by>>

(*************************** /api/finish_pellet ****************************)
FinishBegin(t) ==
    /\ Begin(t)
    /\ Goto(t, "f_active")
    /\ Set(t, [IdleLoc EXCEPT !.op = "finish"])
    /\ UNCHANGED <<session, lock, reading_queue, pellets, sent, finalized_by>>

\* Mutant of FinishActive: the guard is missing, the handler goes straight on to
\* pid = session.pellet_id.
FinishActiveUnchecked(t) ==
    /\ pc[t] = "f_active"
    /\ Goto(t, "f_pid") /\ UNCHANGED loc
    /\ UNCHANGED <<session, lock, reading_queue, pellets, hist>>

\* if not session.active ...
FinishActive(t) ==
    /\ pc[t] = "f_active"
    /\ IF session.active
       THEN Goto(t, "f_pidchk") /\ UNCHANGED loc
       ELSE Respond(t, Err(409, "no active pellet"))
    /\ UNCHANGED <<session, lock, reading_queue, pellets, hist>>

\* ... or session.pellet_id is None
FinishPidCheck(t) ==
    /\ pc[t] = "f_pidchk"
    /\ IF session.pellet_id # None
       THEN Goto(t, "f_pid") /\ UNCHANGED loc
       ELSE Respond(t, Err(409, "no active pellet"))
    /\ UNCHANGED <<session, lock, reading_queue, pellets, hist>>

\* pid = session.pellet_id; finalize_pellet(pid)
FinishPid(t) ==
    /\ pc[t] = "f_pid"
    /\ Goto(t, "fin_read")
    /\ Set(t, [loc[t] EXCEPT !.pid = session.pellet_id])
    /\ UNCHANGED <<session, lock, reading_queue, pellets, hist>>

(***************************** /api/set_point *****************************)
\* Mutant of SetPointBegin: the index check admits 0.
SetPointBeginFromZero(t, idx, val) ==
    /\ Begin(t)
    /\ IF val = None
       THEN /\ pc' = [pc EXCEPT ![t] = "ret"]
            /\ Set(t, [IdleLoc EXCEPT !.op = "set_point",
                                      !.resp = Err(400, "invalid value")])
       ELSE IF ~(0 <= idx /\ idx <= 5)
       THEN /\ pc' = [pc EXCEPT ![t] = "ret"]
            /\ Set(t, [IdleLoc EXCEPT !.op = "set_point", !.idx = idx,
                                      !.resp = Err(400, "idx must be 1..5")])
       ELSE /\ Goto(t, "sp_active")
            /\ Set(t, [IdleLoc EXCEPT !.op = "set_point", !.idx = idx, !.val = val])
    /\ UNCHANGED <<session, lock, reading_queue, pellets, sent, finalized_by>>

\* idx = int(data.get("idx", 0)); val = float(raw) (None: float() raised);
\* the two input checks come before any shared access.
SetPointBegin(t, idx, val) ==
    /\ Begin(t)
    /\ IF val = None
       THEN /\ pc' = [pc EXCEPT ![t] = "ret"]
            /\ Set(t, [IdleLoc EXCEPT !.op = "set_point",
                                      !.resp = Err(400, "invalid value")])
       ELSE IF ~(1 <= idx /\ idx <= 5)
       THEN /\ pc' = [pc EXCEPT ![t] = "ret"]
            /\ Set(t, [IdleLoc EXCEPT !.op = "set_point", !.idx = idx,
                                      !.resp = Err(400, "idx must be 1..5")])
       ELSE /\ Goto(t, "sp_active")
            /\ Set(t, [IdleLoc EXCEPT !.op = "set_point", !.idx = idx, !.val = val])
    /\ UNCHANGED <<session, lock, reading_queue, pellets, sent, finalized_by>>

\* if not session.active ...
SetPointActive(t) ==
    /\ pc[t] = "sp_active"
    /\ IF session.active
       THEN Goto(t, "sp_pidchk") /\ UNCHANGED loc
       ELSE Respond(t, Err(409, "no active pellet"))
    /\ UNCHANGED <<session, lock, reading_queue, pellets, hist>>

\* ... or session.pellet_id is None
SetPointPidCheck(t) ==
    /\ pc[t] = "sp_pidchk"
    /\ IF session.pellet_id # None
       THEN Goto(t, "sp_pid") /\ UNCHANGED loc
       ELSE Respond(t, Err(409, "no active pellet"))
    /\ UNCHANGED <<session, lock, reading_queue, pellets, hist>>

\* the argument session.pellet_id of save_point(session.pellet_id, idx, val)
SetPointPid(t) ==
    /\ pc[t] = "sp_pid"
    /\ Goto(t, "sp_save")
    /\ Set(t, [loc[t] EXCEPT !.pid = session.pellet_id])
    /\ UNCHANGED <<session, lock, reading_queue, pellets, hist>>

SetPointSave(t) ==
    /\ pc[t] = "sp_save"
    /\ pellets' = SavePoint(pellets, loc[t].pid, loc[t].idx, loc[t].val)
    /\ IF SaveRaises(loc[t].idx)
       THEN Respond(t, Err(500, "exception"))
       ELSE Goto(t, "sp_eq") /\ UNCHANGED loc
    /\ UNCHANGED <<session, lock, reading_queue, hist>>

\* if session.next_index == idx ...
SetPointEq(t) ==
    /\ pc[t] = "sp_eq"
    /\ IF session.next_index = loc[t].idx THEN Goto(t, "sp_lt5") ELSE Goto(t, "sp_elif")
    /\ UNCHANGED <<session, lock, reading_queue, pellets, loc, hist>>

\* Mutant of SetPointLt5: the bound off by one (<= 5).
SetPointLt5OffByOne(t) ==
    /\ pc[t] = "sp_lt5"
    /\ IF session.next_index <= 5 THEN Goto(t, "sp_inc_r") ELSE Goto(t, "sp_elif")
    /\ UNCHANGED <<session, lock, reading_queue, pellets, loc, hist>>

\* ... and session.next_index < 5
SetPointLt5(t) ==
    /\ pc[t] = "sp_lt5"
    /\ IF session.next_index < 5 THEN Goto(t, "sp_inc_r") ELSE Goto(t, "sp_elif")
    /\ UNCHANGED <<session, lock, reading_queue, pellets, loc, hist>>

\* session.next_index += 1: the read ...
SetPointIncRead(t) ==
    /\ pc[t] = "sp_inc_r"
    /\ Goto(t, "sp_inc_w")
    /\ Set(t, [loc[t] EXCEPT !.tmp = session.next_index])
    /\ UNCHANGED <<session, lock, reading_queue, pellets, hist>>

\* ... and the write
SetPointIncWrite(t) ==
    /\ pc[t] = "sp_inc_w"
    /\ session' = [session EXCEPT !.next_index = loc[t].tmp + 1]
    /\ Goto(t, "sp_resp")
    /\ UNCHANGED <<lock, reading_queue, pellets, loc, hist>>

\* elif session.next_index < idx <= 5
SetPointElif(t) ==
    /\ pc[t] = "sp_elif"
    /\ IF session.next_index < loc[t].idx /\ loc[t].idx <= 5
       THEN Goto(t, "sp_set") ELSE Goto(t, "sp_resp")
    /\ UNCHANGED <<session, lock, reading_queue, pellets, loc, hist>>

\* session.next_index = min(idx + 1, 6)
SetPointSet(t) ==
    /\ pc[t] = "sp_set"
    /\ session' = [session EXCEPT
                     !.next_index = IF loc[t].idx + 1 < 6 THEN loc[t].idx + 1 ELSE 6]
    /\ Goto(t, "sp_resp")
    /\ UNCHANGED <<lock, reading_queue, pellets, loc, hist>>

\* return jsonify({"ok": True, "next_index": session.next_index})
SetPointResp(t) ==
    /\ pc[t] = "sp_resp"
    /\ Respond(t, Ok(<<session.next_index>>))
    /\ UNCHANGED <<session, lock, reading_queue, pellets, hist>>

(******************************* /api/status *******************************)
PollBegin(t) ==
    /\ Begin(t)
    /\ Goto(t, "p_get")
    /\ Set(t, [IdleLoc EXCEPT !.op = "poll"])
    /\ UNCHANGED <<session, lock, reading_queue, pellets, sent, finalized_by>>

\* Mutant of PollGet: takes the newest value (LIFO) instead of the oldest.
PollGetNewest(t) ==
    /\ pc[t] = "p_get"
    /\ IF reading_queue = <<>>
       THEN /\ Goto(t, "p_resp")
            /\ UNCHANGED <<reading_queue, loc>>
       ELSE /\ reading_queue' = SubSeq(reading_queue, 1, Len(reading_queue) - 1)
            /\ Goto(t, "p_lv")
            /\ Set(t, [loc[t] EXCEPT !.val = reading_queue[Len(reading_queue)]])
    /\ UNCHANGED <<session, lock, pellets, hist>>

\* val = reading_queue.get_nowait(); except Empty: break
PollGet(t) ==
    /\ pc[t] = "p_get"
    /\ IF reading_queue = <<>>
       THEN /\ Goto(t, "p_resp")
            /\ UNCHANGED <<reading_queue, loc>>
       ELSE /\ reading_queue' = Tail(reading_queue)
            /\ Goto(t, "p_lv")
            /\ Set(t, [loc[t] EXCEPT !.val = Head(reading_queue)])
    /\ UNCHANGED <<session, lock, pellets, hist>>

\* session.last_value = val
PollLastValue(t) ==
    /\ pc[t] = "p_lv"
    /\ session' = [session EXCEPT !.last_value = loc[t].val]
    /\ Goto(t, "p_lt")
    /\ UNCHANGED <<lock, reading_queue, pellets, loc, hist>>

\* session.last_time = datetime.now()...; applied.append(val)
PollLastTime(t) ==
    /\ pc[t] = "p_lt"
    /\ session' = [session EXCEPT !.last_time = Timestamp]
    /\ Goto(t, "p_active")
    /\ Set(t, [loc[t] EXCEPT !.applied = Append(@, loc[t].val)])
    /\ UNCHANGED <<lock, reading_queue, pellets, hist>>

\* Mutant of PollActive: the value is applied whether the session is active or not.
PollActiveUnchecked(t) ==
    /\ pc[t] = "p_active"
    /\ Goto(t, "p_n")
    /\ UNCHANGED <<session, lock, reading_queue, pellets, loc, hist>>

\* if session.active ...
PollActive(t) ==
    /\ pc[t] = "p_active"
    /\ IF session.active THEN Goto(t, "p_n") ELSE Goto(t, "p_get")
    /\ UNCHANGED <<session, lock, reading_queue, pellets, loc, hist>>

\* ... and session.next_index <= 5
PollNextIndex(t) ==
    /\ pc[t] = "p_n"
    /\ IF session.next_index <= 5 THEN Goto(t, "p_idx") ELSE Goto(t, "p_get")
    /\ UNCHANGED <<session, lock, reading_queue, pellets, loc, hist>>

\* idx = session.next_index
PollIdx(t) ==
    /\ pc[t] = "p_idx"
    /\ Goto(t, "p_pid")
    /\ Set(t, [loc[t] EXCEPT !.idx = session.next_index])
    /\ UNCHANGED <<session, lock, reading_queue, pellets, hist>>

\* the argument session.pellet_id of save_point(session.pellet_id, idx, val)
PollPid(t) ==
    /\ pc[t] = "p_pid"
    /\ Goto(t, "p_save")
    /\ Set(t, [loc[t] EXCEPT !.pid = session.pellet_id])
    /\ UNCHANGED <<session, lock, reading_queue, pellets, hist>>

PollSave(t) ==
    /\ pc[t] = "p_save"
    /\ pellets' = SavePoint(pellets, loc[t].pid, loc[t].idx, loc[t].val)
    /\ IF SaveRaises(loc[t].idx)
       THEN Respond(t, Err(500, "exception"))
       ELSE Goto(t, "p_inc_r") /\ UNCHANGED loc
    /\ UNCHANGED <<session, lock, reading_queue, hist>>

\* session.next_index += 1: the read ...
PollIncRead(t) ==
    /\ pc[t] = "p_inc_r"
    /\ Goto(t, "p_inc_w")
    /\ Set(t, [loc[t] EXCEPT !.tmp = session.next_index])
    /\ UNCHANGED <<session, lock, reading_queue, pellets, hist>>

\* ... and the write
PollIncWrite(t) ==
    /\ pc[t] = "p_inc_w"
    /\ session' = [session EXCEPT !.next_index = loc[t].tmp + 1]
    /\ Goto(t, "p_chk")
    /\ UNCHANGED <<lock, reading_queue, pellets, loc, hist>>

\* Mutant of PollCheckFull: the full test off by one (>= 5).
PollCheckFullOffByOne(t) ==
    /\ pc[t] = "p_chk"
    /\ IF session.next_index >= 5 THEN Goto(t, "p_fpid") ELSE Goto(t, "p_get")
    /\ UNCHANGED <<session, lock, reading_queue, pellets, loc, hist>>

\* if session.next_index > 5
PollCheckFull(t) ==
    /\ pc[t] = "p_chk"
    /\ IF session.next_index > 5 THEN Goto(t, "p_fpid") ELSE Goto(t, "p_get")
    /\ UNCHANGED <<session, lock, reading_queue, pellets, loc, hist>>

\* the argument session.pellet_id of finalize_pellet(session.pellet_id)
PollFinalizePid(t) ==
    /\ pc[t] = "p_fpid"
    /\ Goto(t, "fin_read")
    /\ Set(t, [loc[t] EXCEPT !.pid = session.pellet_id])
    /\ UNCHANGED <<session, lock, reading_queue, pellets, hist>>

\* return jsonify({"active": ..., "applied": applied, ...})
PollResp(t) ==
    /\ pc[t] = "p_resp"
    /\ Respond(t, Ok(<<session.active, session.pellet_id, session.next_index,
                       session.last_value, session.last_time, loc[t].applied>>))
    /\ UNCHANGED <<session, lock, reading_queue, pellets, hist>>

(***************************** the response ********************************)
\* The handler returns; the request thread is free for the next request.
Return(t) ==
    /\ pc[t] = "ret"
    /\ Goto(t, "idle")
    /\ Set(t, IdleLoc)
    /\ UNCHANGED <<session, lock, reading_queue, pellets, hist>>

(************************** next-state relation ****************************)
\* A step of a request thread serving /api/status (finalize_pellet and
\* session.stop() are reached from it alone when no other handler runs).
PollStep(t) ==
    \/ PollBegin(t) \/ PollGet(t) \/ PollLastValue(t) \/ PollLastTime(t)
    \/ PollActive(t) \/ PollNextIndex(t) \/ PollIdx(t) \/ PollPid(t) \/ PollSave(t)
    \/ PollIncRead(t) \/ PollIncWrite(t) \/ PollCheckFull(t) \/ PollFinalizePid(t)
    \/ PollResp(t)
    \/ FinalizeRead(t) \/ FinalizeWrite(t) \/ ResetStep(t)
    \/ Return(t)

ThreadStep(t) ==
    \/ StartBegin(t) \/ StartInsert(t) \/ StartSet(t)
    \/ CancelBegin(t)
    \/ FinishBegin(t) \/ FinishActive(t) \/ FinishPidCheck(t) \/ FinishPid(t)
    \/ \E idx \in 0..(NumSlots + 1), val \in Values \cup {None} : SetPointBegin(t, idx, val)
    \/ SetPointActive(t) \/ SetPointPidCheck(t) \/ SetPointPid(t) \/ SetPointSave(t)
    \/ SetPointEq(t) \/ SetPointLt5(t) \/ SetPointIncRead(t) \/ SetPointIncWrite(t)
    \/ SetPointElif(t) \/ SetPointSet(t) \/ SetPointResp(t)
    \/ PollStep(t)

LinkStep == \E val \in Values : LinkPut(val)

\* Every interleaving of the request threads and the SerialReader.
Next == (LinkStep \/ \E t \in Threads : ThreadStep(t)) /\ UNCHANGED <<limit, obs, call, link>>

Spec == Init /\ [][Next]_vars

\* One request at a time: a request thread moves only while the others are idle,
\* and the SerialReader puts only between requests.
AllIdle == \A u \in Threads : pc[u] = "idle"
OthersIdle(t) == \A u \in Threads \ {t} : pc[u] = "idle"

InitSeq ==
    /\ InitState
    /\ limit = [ops |-> MaxOps, sent |-> MaxSent]
    /\ obs = [req |-> NoSnap, iter |-> NoSnap]
    /\ call = NoCall
    /\ LinkUnused

\* What SpecSeq records of the state a request finds: when it begins (req), and
\* each time /api/status takes a value from the queue (iter).
Observe(t) ==
    IF pc[t] = "idle" THEN [req |-> Snapshot, iter |-> NoSnap]
    ELSE IF pc[t] = "p_get" /\ reading_queue # <<>> THEN [obs EXCEPT !.iter = Snapshot]
    ELSE obs

NextSeq ==
    \/ AllIdle /\ LinkStep /\ UNCHANGED <<limit, obs, call, link>>
    \/ \E t \in Threads : /\ OthersIdle(t) /\ ThreadStep(t) /\ obs' = Observe(t)
                           /\ UNCHANGED <<limit, call, link>>

SpecSeq == InitSeq /\ [][NextSeq]_vars

\* Concurrent polls only: the state session.start(1) leaves behind (ACTIVE(1, 1),
\* one empty row, an empty queue), then /api/status requests and the SerialReader.
InitPolls ==
    /\ session = [active |-> TRUE, pellet_id |-> 1, next_index |-> 1,
                  last_value |-> None, last_time |-> None]
    /\ lock = NoThread
    /\ reading_queue = <<>>
    /\ pellets = <<EmptyRow>>
    /\ pc = [t \in Threads |-> "idle"]
    /\ loc = [t \in Threads |-> IdleLoc]
    /\ sent = <<>>
    /\ finalized_by = << <<>> >>
    /\ nops = 0
    /\ limit = [ops |-> MaxOps, sent |-> MaxSentConc]
    /\ obs = [req |-> NoSnap, iter |-> NoSnap]
    /\ call = NoCall
    /\ LinkUnused

NextPolls == (LinkStep \/ \E t \in Threads : PollStep(t)) /\ UNCHANGED <<limit, obs, call, link>>

SpecPolls == InitPolls /\ [][NextPolls]_vars

\* One request at a time, the first of them arriving when the SerialReader has
\* already put one or more values that nothing has drained.
InitBacklog ==
    /\ session = [active |-> FALSE, pellet_id |-> None, next_index |-> 1,
                  last_value |-> None, last_time |-> None]
    /\ lock = NoThread
    /\ reading_queue \in UNION {[1..k -> Values] : k \in 1..MaxBacklog}
    /\ sent = reading_queue
    /\ pellets = <<>>
    /\ pc = [t \in Threads |-> "idle"]
    /\ loc = [t \in Threads |-> IdleLoc]
    /\ finalized_by = <<>>
    /\ nops = 0
    /\ limit = [ops |-> MaxOps, sent |-> MaxSent]
    /\ obs = [req |-> NoSnap, iter |-> NoSnap]
    /\ call = NoCall
    /\ LinkUnused

SpecBacklog == InitBacklog /\ [][NextSeq]_vars

\* parse_value on every string of at most MaxLen characters: the argument is
\* chosen at the start, the call returns once.
InitParse ==
    /\ InitState
    /\ limit = [ops |-> MaxOps, sent |-> MaxSent]
    /\ obs = [req |-> NoSnap, iter |-> NoSnap]
    /\ call \in {[s |-> s, done |-> FALSE, result |-> None] : s \in Strings(MaxLen)}
    /\ LinkUnused

ParseCall ==
    /\ ~call.done
    /\ call' = [call EXCEPT !.done = TRUE, !.result = ParseValue(call.s)]
    /\ UNCHANGED <<session, lock, reading_queue, pellets, pc, loc, hist, limit, obs, link>>

NextParse == ParseCall

SpecParse == InitParse /\ [][NextParse]_vars

(******************** SerialReader.run, frame by frame ********************)
\* One pass of the loop of run is one step: nothing but the queue is shared with
\* the request threads.

\* self._ser is None: _open_port(), then sleep and continue
ReaderOpenPort ==
    /\ reader.ser = None
    /\ IF ~port.driver
       THEN /\ reader' = [reader EXCEPT !.last_error = "pyserial not available"]
            /\ UNCHANGED <<port, opens>>
       ELSE IF port.present
       THEN /\ reader' = [reader EXCEPT !.ser = Handle, !.port_open = TRUE,
                                         !.last_error = NoError]
            /\ port' = [port EXCEPT !.handle_open = TRUE]
            /\ opens' = IF opens < MaxOpens THEN opens + 1 ELSE opens
       ELSE /\ reader' = [reader EXCEPT !.ser = None, !.port_open = FALSE,
                                         !.last_error = "open_port"]
            /\ UNCHANGED <<port, opens>>
    /\ UNCHANGED <<reading_queue, sent, frames>>

\* Mutant of ReaderRead: every non-empty line is enqueued, parsed or not.
ReaderReadUnfiltered(raw) ==
    /\ reader.ser # None /\ port.present
    /\ LET line == Strip(raw)
           val == ParseValue(line)
       IN IF line # <<>>
          THEN /\ Len(frames) < MaxFrames
               /\ reader' = [reader EXCEPT !.last_raw = line]
               /\ frames' = Append(frames, line)
               /\ reading_queue' = Append(reading_queue, val)
               /\ sent' = Append(sent, val)
          ELSE UNCHANGED <<reader, frames, reading_queue, sent>>
    /\ UNCHANGED <<port, opens>>

\* The read returns raw (empty on a timeout): line = raw.decode().strip();
\* if line: last_raw = line; val = parse_value(line); if val is not None: put(val)
ReaderRead(raw) ==
    /\ reader.ser # None /\ port.present
    /\ LET line == Strip(raw)
           val == ParseValue(line)
       IN IF line # <<>>
          THEN /\ Len(frames) < MaxFrames
               /\ reader' = [reader EXCEPT !.last_raw = line]
               /\ frames' = Append(frames, line)
               /\ IF val # None
                  THEN /\ reading_queue' = Append(reading_queue, val)
                       /\ sent' = Append(sent, val)
                  ELSE UNCHANGED <<reading_queue, sent>>
          ELSE UNCHANGED <<reader, frames, reading_queue, sent>>
    /\ UNCHANGED <<port, opens>>

\* Mutant of ReaderReadFails: the handle is closed but still referenced.
ReaderReadFailsKeepsHandle ==
    /\ reader.ser # None /\ ~port.present
    /\ reader' = [reader EXCEPT !.last_error = "read", !.port_open = FALSE]
    /\ port' = [port EXCEPT !.handle_open = FALSE]
    /\ UNCHANGED <<reading_queue, sent, frames, opens>>

\* The read raises (the device is gone): last_error = "read: ..."; self._ser.close();
\* self._ser = None; self.port_open = False; sleep
ReaderReadFails ==
    /\ reader.ser # None /\ ~port.present
    /\ reader' = [reader EXCEPT !.last_error = "read", !.ser = None, !.port_open = FALSE]
    /\ port' = [port EXCEPT !.handle_open = FALSE]
    /\ UNCHANGED <<reading_queue, sent, frames, opens>>

ReaderStep ==
    \/ ReaderOpenPort
    \/ \E raw \in Strings(MaxFrameLen) : ReaderRead(raw)
    \/ ReaderReadFails

\* The operator plugs the cable in, or the device goes away.
DevicePlug ==
    /\ ~port.present
    /\ port' = [port EXCEPT !.present = TRUE]
    /\ UNCHANGED <<reader, reading_queue, sent, frames, opens>>

DeviceUnplug ==
    /\ port.present
    /\ port' = [port EXCEPT !.present = FALSE]
    /\ UNCHANGED <<reader, reading_queue, sent, frames, opens>>

InitLink ==
    /\ InitState
    /\ limit = [ops |-> MaxOps, sent |-> MaxSent]
    /\ obs = [req |-> NoSnap, iter |-> NoSnap]
    /\ call = NoCall
    /\ reader = NewReader
    /\ port \in [driver : BOOLEAN, present : BOOLEAN, handle_open : {FALSE}]
    /\ frames = <<>>
    /\ opens = 0

\* The request threads take no step in the specifications of the link.
ReaderRun ==
    /\ ReaderStep
    /\ UNCHANGED <<session, lock, pellets, pc, loc, finalized_by, nops, limit, obs, call>>

DeviceStep ==
    /\ DevicePlug \/ DeviceUnplug
    /\ UNCHANGED <<session, lock, pellets, pc, loc, finalized_by, nops, limit, obs, call>>

NextLink == ReaderRun \/ DeviceStep

SpecLink == InitLink /\ [][NextLink]_vars

\* The reader thread loops for as long as the process runs.
SpecLinkFair == SpecLink /\ WF_vars(ReaderRun)

(******************************** claims ***********************************)
Active(id, n) == session.active /\ session.pellet_id = id /\ session.next_index = n
Idle == ~session.active /\ session.pellet_id = None

\* A request thread of /api/status back at the head of its drain loop after an
\* iteration that found the session ACTIVE with next_index <= 5.
IterationDone(t) ==
    /\ pc[t] = "p_get" /\ loc[t].op = "poll"
    /\ obs.iter.active /\ obs.iter.pellet_id # None /\ obs.iter.next_index <= 5

\* C1: one iteration of the drain loop that finds the session ACTIVE(id, n), n <= 5,
\* and runs without interleaving stores its value v in slot n of sample id and
\* leaves ACTIVE(id, n+1) when n < 5; when n = 5 it finalizes id and leaves IDLE.
C1_ApplyAuto ==
    \A t \in Threads : IterationDone(t) =>
        LET id == obs.iter.pellet_id
            n == obs.iter.next_index
        IN /\ pellets[id].p[n] = loc[t].val
           /\ n < 5 => Active(id, n + 1)
           /\ n = 5 => /\ Idle
                       /\ pellets[id].done = 1
                       /\ finalized_by[id] # <<>>
                       /\ finalized_by[id][Len(finalized_by[id])] = "poll"

\* C1 witness: the iteration that found next_index = 5 has finalized and gone IDLE.
C1_Witness ==
    \E t \in Threads :
        /\ IterationDone(t) /\ obs.iter.next_index = 5
        /\ Idle /\ pellets[obs.iter.pellet_id].done = 1

Quiescent == AllIdle /\ reading_queue = <<>>

\* C2: from ACTIVE(1, 1) with an empty queue and nothing but polls, however the
\* polls interleave, once every value is drained the k-th value the SerialReader
\* put (k <= 5) is in slot k of sample 1.
C2_SlotOrder ==
    Quiescent =>
        \A k \in Slots : k <= Len(sent) => pellets[1].p[k] = sent[k]

\* A request thread in the middle of an update of the session: it has read or
\* written a session field in this request and a write of its own is still to come
\* (a check passed and not yet acted on, a read-modify-write between its read and
\* its write, the assignments of start/reset after the first).
InSessionUpdate(t) ==
    \/ pc[t] \in {"p_lt", "p_idx", "p_pid", "p_save", "p_inc_r", "p_inc_w"}
    \/ pc[t] \in {"sp_inc_r", "sp_inc_w", "sp_set"}
    \/ pc[t] \in {"f_pid", "fin_read", "fin_write"}
    \/ pc[t] = "reset" /\ (loc[t].k > 1 \/ loc[t].op \in {"poll", "finish"})
    \/ pc[t] = "st_set" /\ loc[t].k > 1

\* C3: the session operations are mutually exclusive: at most one request thread
\* is in the middle of an update of the session fields.
C3_MutualExclusion ==
    Cardinality({t \in Threads : InSessionUpdate(t)}) <= 1

\* C4: a sample whose completion flag was set without a finish request has all
\* five slots filled.
C4_DoneOnlyWhenFull ==
    \A id \in DOMAIN pellets :
        (pellets[id].done = 1 /\ \A j \in DOMAIN finalized_by[id] : finalized_by[id][j] # "finish")
            => \A i \in Slots : pellets[id].p[i] # None

\* C5: finalize_pellet's UPDATE runs at most once for each sample.
C5_FinalizeOnce ==
    \A id \in DOMAIN finalized_by : Len(finalized_by[id]) <= 1

\* C6: once a sample's completion flag is set, no step changes its slots or its
\* aggregates.
C6_FinalizedFrozen ==
    [][\A id \in DOMAIN pellets : pellets[id].done = 1 => pellets'[id] = pellets[id]]_vars

\* C9: next_index stays within 1..6 in every state.
C9_NextIndexRange == session.next_index \in 1..6

\* A /api/set_point request that passed its input checks on an ACTIVE session
\* has answered.
ManualDone(t) ==
    /\ pc[t] = "ret" /\ loc[t].op = "set_point" /\ loc[t].idx \in Slots
    /\ obs.req.active /\ obs.req.pellet_id # None

NextAfterManual(n, i) ==
    IF i = n /\ n < 5 THEN n + 1
    ELSE IF i > n THEN (IF i + 1 < 6 THEN i + 1 ELSE 6)
    ELSE n

\* C7: a manual write (i, v) that finds ACTIVE(id, n) and runs without interleaving
\* is accepted, stores v in slot i of id whatever n is, leaves the session ACTIVE on
\* id with the completion flag unset, and leaves next_index at n+1 if i = n < 5, at
\* min(i+1, 6) if i > n, and at n otherwise; the answer carries that next_index.
C7_ApplyManual ==
    \A t \in Threads : ManualDone(t) =>
        LET id == obs.req.pellet_id
            n == obs.req.next_index
            i == loc[t].idx
        IN /\ loc[t].resp = Ok(<<NextAfterManual(n, i)>>)
           /\ pellets[id].p[i] = loc[t].val
           /\ Active(id, NextAfterManual(n, i))
           /\ pellets[id].done = 0 /\ finalized_by[id] = <<>>

\* C7 witness: set_point(3, v) on ACTIVE(id, 1) has skipped to next_index 4.
C7_Witness ==
    \E t \in Threads :
        /\ ManualDone(t) /\ obs.req.next_index = 1 /\ loc[t].idx = 3
        /\ session.next_index = 4 /\ pellets[obs.req.pellet_id].p[3] = loc[t].val

\* The aggregates of a row, from its filled slots (not by the code's list walk).
Filled(row) == {i \in Slots : row[i] # None}

RECURSIVE SlotSum(_, _)
SlotSum(row, S) == IF S = {} THEN 0
                   ELSE LET i == CHOOSE j \in S : TRUE IN row[i] + SlotSum(row, S \ {i})

AggregatesOf(row) ==
    IF Filled(row) = {}
    THEN [avg |-> <<>>, mn |-> None, mx |-> None]
    ELSE [avg |-> <<SlotSum(row, Filled(row)), Cardinality(Filled(row))>>,
          mn |-> CHOOSE v \in {row[i] : i \in Filled(row)} :
                     \A i \in Filled(row) : v <= row[i],
          mx |-> CHOOSE v \in {row[i] : i \in Filled(row)} :
                     \A i \in Filled(row) : v >= row[i]]

\* start, then five device values drained by one poll, and nothing else.
FiveValuesRun ==
    /\ AllIdle /\ nops = 2 /\ Len(pellets) = 1
    /\ obs.req.active /\ obs.req.pellet_id = 1 /\ obs.req.next_index = 1
    /\ Len(sent) = 5 /\ reading_queue = <<>>

\* C8: with requests served one at a time, every finalized sample carries the
\* average, minimum and maximum of exactly its filled slots (None when it has
\* none); and start followed by five device values leaves slots 1..5 = v1..v5,
\* the flag set, the aggregates over all five, and the session IDLE.
C8_Aggregates ==
    /\ \A id \in DOMAIN pellets : pellets[id].done = 1 =>
           /\ pellets[id].avg = AggregatesOf(pellets[id].p).avg
           /\ pellets[id].mn = AggregatesOf(pellets[id].p).mn
           /\ pellets[id].mx = AggregatesOf(pellets[id].p).mx
    /\ FiveValuesRun =>
           /\ \A k \in Slots : pellets[1].p[k] = sent[k]
           /\ pellets[1].done = 1
           /\ pellets[1].avg = <<SumSeq(sent), 5>>
           /\ Idle

\* C8 witness: the five-value run has ended, with two different values among the five.
C8_Witness ==
    /\ FiveValuesRun /\ pellets[1].done = 1
    /\ pellets[1].mn # pellets[1].mx

\* A /api/status request that found ACTIVE(id, n), n <= 3, and at least three
\* queued values has answered.
BatchDone(t) ==
    /\ pc[t] = "ret" /\ loc[t].op = "poll"
    /\ obs.req.active /\ obs.req.pellet_id # None /\ obs.req.next_index <= 3
    /\ Len(obs.req.queue) >= 3

\* C10: one poll that finds the queue holding v1, v2, v3 (oldest first) and the
\* session ACTIVE(id, n), n <= 3, stores them in slots n, n+1, n+2 and reports
\* them as applied in that order.
C10_BatchOrder ==
    \A t \in Threads : BatchDone(t) =>
        LET id == obs.req.pellet_id
            n == obs.req.next_index
            q == obs.req.queue
            applied == loc[t].resp.data[6]
        IN /\ loc[t].resp.code = 200
           /\ Len(applied) >= 3
           /\ \A k \in 1..3 : /\ pellets[id].p[n + k - 1] = q[k]
                              /\ applied[k] = q[k]

\* C10 witness: a batch of three with a first and last value that differ, from n = 3
\* (the third value fills slot 5).
C10_Witness ==
    \E t \in Threads :
        /\ BatchDone(t) /\ obs.req.next_index = 3
        /\ obs.req.queue[1] # obs.req.queue[3]
        /\ pellets[obs.req.pellet_id].p[5] = obs.req.queue[3]

\* A /api/set_point request has answered with a rejection.
ManualRejected(t) ==
    pc[t] = "ret" /\ loc[t].op = "set_point" /\ loc[t].resp.code # 200

\* The session fields and the stored samples are as the running request found them.
SessionAsFound == /\ session.active = obs.req.active
                  /\ session.pellet_id = obs.req.pellet_id
                  /\ session.next_index = obs.req.next_index
SamplesAsFound == pellets = obs.req.pellets

\* C11: a manual write with an index outside 1..5 is rejected ("idx must be 1..5"),
\* a manual write with a valid index on an IDLE session is rejected ("no active
\* pellet"), and every rejected manual write leaves active, the sample id,
\* next_index and every stored sample as they were before the call.
C11_RejectedManual ==
    \A t \in Threads : (pc[t] = "ret" /\ loc[t].op = "set_point") =>
        /\ (loc[t].idx # None /\ loc[t].idx \notin Slots)
               => loc[t].resp = Err(400, "idx must be 1..5")
        /\ (loc[t].idx \in Slots /\ ~obs.req.active)
               => loc[t].resp = Err(409, "no active pellet")
        /\ ManualRejected(t) => SessionAsFound /\ SamplesAsFound

\* C11 witness: set_point(6, v) was rejected on an ACTIVE session whose sample
\* already holds a value.
C11_Witness ==
    \E t \in Threads :
        /\ ManualRejected(t) /\ loc[t].idx = 6
        /\ session.active /\ pellets[session.pellet_id].p[1] # None

\* A /api/finish_pellet request that found the session IDLE has answered.
FinishOnIdle(t) ==
    pc[t] = "ret" /\ loc[t].op = "finish" /\ ~obs.req.active

\* C12: finish on an IDLE session is rejected with the reason "no active pellet"
\* (the code's word for the sample) and changes nothing: the session is IDLE as
\* before and every stored sample keeps its slots, aggregates and completion flag.
C12_FinishOnIdle ==
    \A t \in Threads : FinishOnIdle(t) =>
        /\ loc[t].resp = Err(409, "no active pellet")
        /\ Idle /\ SessionAsFound
        /\ SamplesAsFound
        /\ reading_queue = obs.req.queue

\* C12 witness: finish was rejected on an IDLE session while the store holds a sample.
C12_Witness ==
    \E t \in Threads : FinishOnIdle(t) /\ loc[t].resp.code = 409 /\ pellets # <<>>

\* A /api/start_pellet or /api/cancel_pellet request that found a sample ACTIVE
\* has answered.
AbandonDone(t) ==
    /\ pc[t] = "ret" /\ loc[t].op \in {"start", "cancel"}
    /\ obs.req.active /\ obs.req.pellet_id # None

\* What start and cancel leave behind, old being the sample they found active.
AbandonResult ==
    \A t \in Threads : AbandonDone(t) =>
        LET old == obs.req.pellet_id
        IN /\ loc[t].op = "start" =>
                  /\ Active(Len(pellets), 1) /\ Len(pellets) # old
                  /\ loc[t].resp = Ok(<<Len(pellets)>>)
           /\ loc[t].op = "cancel" => Idle /\ session.next_index = 1
           /\ pellets[old] = obs.req.pellets[old]
           /\ pellets[old].done = 0 /\ finalized_by[old] = <<>>

\* No step writes or finalizes a stored sample other than the session's current one.
OnlyCurrentWritten ==
    \A id \in DOMAIN pellets : session.pellet_id # id => pellets'[id] = pellets[id]

\* C13: with requests served one at a time, start from ACTIVE(old, n) leaves
\* ACTIVE(new, 1) and cancel leaves IDLE, in both cases with the record of old as
\* it was and its completion flag unset; and no later step (a poll, a manual
\* write, a finish) writes or finalizes a sample that is not the current one.
C13_AbandonKeepsRecord ==
    []AbandonResult /\ [][OnlyCurrentWritten]_vars

\* C13 witness: start has superseded a sample that already holds a value.
C13_Witness ==
    \E t \in Threads :
        /\ AbandonDone(t) /\ loc[t].op = "start"
        /\ pellets[obs.req.pellet_id].p[1] # None
        /\ Active(2, 1) /\ obs.req.pellet_id = 1

\* s[i..j] is a numeric token: an optional sign, then digits with at most one
\* decimal point among them, a digit on either side of it.
IsToken(s, i, j) ==
    LET d == IF s[i] \in Sign THEN i + 1 ELSE i
    IN /\ d <= j
       /\ \A k \in d..j : s[k] \in Digit \cup {"."}
       /\ s[d] \in Digit /\ s[j] \in Digit
       /\ Cardinality({k \in d..j : s[k] = "."}) <= 1

TokenStarts(s) == {i \in 1..Len(s) : \E j \in i..Len(s) : IsToken(s, i, j)}
HasToken(s) == TokenStarts(s) # {}

\* The first token of s: the one that starts leftmost, taken as far as it goes.
FirstStart(s) == CHOOSE i \in TokenStarts(s) : \A k \in TokenStarts(s) : i <= k
FirstEnd(s) == CHOOSE j \in FirstStart(s)..Len(s) :
                   /\ IsToken(s, FirstStart(s), j)
                   /\ \A k \in FirstStart(s)..Len(s) : IsToken(s, FirstStart(s), k) => k <= j

RECURSIVE SumOver(_, _)
SumOver(f, S) == IF S = {} THEN 0
                 ELSE LET k == CHOOSE x \in S : TRUE IN f[k] + SumOver(f, S \ {k})

\* The number the token s[i..j] denotes, in units of 10^-MaxLen: each digit
\* weighted by its place relative to the decimal point.
TokenValue(s, i, j) ==
    LET d == IF s[i] \in Sign THEN i + 1 ELSE i
        dots == {k \in d..j : s[k] = "."}
        point == IF dots = {} THEN j + 1 ELSE CHOOSE k \in dots : TRUE
        place == [k \in (d..j) \ dots |->
                     IF k < point THEN DigitValue(s[k]) * Pow10(MaxLen + point - 1 - k)
                     ELSE DigitValue(s[k]) * Pow10(MaxLen - (k - point))]
        magnitude == SumOver(place, (d..j) \ dots)
    IN IF s[i] = "-" THEN 0 - magnitude ELSE magnitude

FirstTokenValue(s) == TokenValue(s, FirstStart(s), FirstEnd(s))

\* C15 as stated: for every string that contains a numeric token, parse_value
\* returns the value of the first such token.
C15_FirstToken ==
    (call.done /\ HasToken(call.s)) => call.result = FirstTokenValue(call.s)

\* C15 amended: for every string that contains a numeric token, parse_value
\* returns the value of the first such token when that value lies within 0..50,
\* whatever text surrounds it, and no value when it lies outside.
C15_FirstTokenInRange ==
    (call.done /\ HasToken(call.s)) =>
        call.result = IF /\ LowerBound * Unit <= FirstTokenValue(call.s)
                         /\ FirstTokenValue(call.s) <= UpperBound * Unit
                      THEN FirstTokenValue(call.s)
                      ELSE None

\* C15 witness: a signed token with text before and after it was parsed to its value.
C15_Witness ==
    /\ call.done /\ HasToken(call.s) /\ call.result # None
    /\ FirstStart(call.s) > 1 /\ FirstEnd(call.s) < Len(call.s)
    /\ call.s[FirstStart(call.s)] \in Sign
    /\ call.result = FirstTokenValue(call.s) /\ call.result > 0

\* The values parse_value accepts among the lines read, in the order of the lines.
RECURSIVE Accepted(_)
Accepted(fs) ==
    IF fs = <<>> THEN <<>>
    ELSE IF ParseValue(Head(fs)) # None THEN <<ParseValue(Head(fs))>> \o Accepted(Tail(fs))
    ELSE Accepted(Tail(fs))

\* C16: the values put on the queue are exactly the parse results of the
\* non-empty lines read that parse_value accepts, in the order the lines were
\* read; every element of the queue lies within 0..50; and every non-empty line
\* read, accepted or rejected, is recorded as last_raw.
C16_OnlyParsedValues ==
    /\ sent = Accepted(frames)
    /\ \E k \in 0..Len(sent) : reading_queue = SubSeq(sent, k + 1, Len(sent))
    /\ \A k \in DOMAIN reading_queue :
           /\ LowerBound * Unit <= reading_queue[k]
           /\ reading_queue[k] <= UpperBound * Unit
    /\ frames # <<>> => reader.last_raw = frames[Len(frames)]
    /\ \A k \in DOMAIN frames : frames[k] # <<>>

\* C16 witness: an accepted line, then a line with an out-of-range token: the
\* queue holds the first value only and last_raw is the rejected line.
C16_Witness ==
    /\ Len(frames) = 2
    /\ ParseValue(frames[1]) # None
    /\ HasToken(frames[2]) /\ ParseValue(frames[2]) = None
    /\ reading_queue = <<ParseValue(frames[1])>>
    /\ reader.last_raw = frames[2]

LinkOpen == reader.ser = Handle /\ reader.port_open /\ port.handle_open
LinkClosed == reader.ser = None /\ ~reader.port_open /\ ~port.handle_open

\* A step in which a read on the open port fails (the reader records it).
ReadFailure == reader.ser # None /\ reader'.last_error = "read"

\* A step in which a line is read that parse_value accepts.
ValidFrameRead ==
    frames' # frames /\ ParseValue(frames'[Len(frames')]) # None

\* C14: a read failure while OPEN leaves the link CLOSED (the handle closed and
\* dropped, port_open false); a line read that parses is put on the queue; and,
\* the reader thread being scheduled fairly and pyserial importable, if the
\* device is available from some time on, then from some time on the link is
\* OPEN, however long it was CLOSED before.
C14_LinkRecovers ==
    /\ [][ReadFailure => LinkClosed']_vars
    /\ [][ValidFrameRead =>
             reading_queue' = Append(reading_queue, ParseValue(frames'[Len(frames')]))]_vars
    /\ (port.driver /\ <>[]port.present) => <>[]LinkOpen

\* C14 witness: the port was opened a second time and a line read on it has
\* been put on the queue.
C14_Witness ==
    /\ opens = 2 /\ LinkOpen /\ port.present
    /\ reading_queue # <<>>

\* A request thread of /api/status back at the head of its drain loop after an
\* iteration that found the session IDLE, or ACTIVE with next_index = 6.
IterationSkipped(t) ==
    /\ pc[t] = "p_get" /\ loc[t].op = "poll"
    /\ obs.iter.next_index >= 1
    /\ ~obs.iter.active \/ obs.iter.next_index = 6

\* C17: a value drained while the session is IDLE, or ACTIVE with next_index = 6,
\* is taken off the queue and reported (applied, last_value), and nothing else
\* changes: no sample is written or finalized, and active, the sample id and
\* next_index are as before (the session at next_index = 6 stays ACTIVE).
C17_DrainWithoutEffect ==
    \A t \in Threads : IterationSkipped(t) =>
        /\ reading_queue = Tail(obs.iter.queue)
        /\ loc[t].applied # <<>>
        /\ loc[t].applied[Len(loc[t].applied)] = Head(obs.iter.queue)
        /\ session.last_value = Head(obs.iter.queue)
        /\ session.active = obs.iter.active
        /\ session.pellet_id = obs.iter.pellet_id
        /\ session.next_index = obs.iter.next_index
        /\ pellets = obs.iter.pellets

\* C17 witness: a value was drained on ACTIVE(id, 6) and the session is still
\* ACTIVE(id, 6), the sample not finalized.
C17_Witness ==
    \E t \in Threads :
        /\ IterationSkipped(t) /\ obs.iter.active
        /\ Active(obs.iter.pellet_id, 6)
        /\ pellets[session.pellet_id].done = 0
        /\ Len(reading_queue) < Len(obs.iter.queue)

\* C18: between requests, whenever the session is ACTIVE, next_index = 6 exactly
\* when all five slots of the active sample are filled.
C18_SixMeansFull ==
    (AllIdle /\ session.active /\ session.pellet_id \in DOMAIN pellets) =>
        (session.next_index = 6
             <=> \A i \in Slots : pellets[session.pellet_id].p[i] # None)

\* A /api/status request that drained at least one value has answered.
DrainedSome(t) ==
    pc[t] = "ret" /\ loc[t].op = "poll" /\ loc[t].applied # <<>>

\* C19: right after a poll that drained at least one value, with no other request
\* interleaved, last_value is the last value that poll drained and last_time is
\* set, whether or not the value went to a slot or completed the sample.
C19_LastValueReported ==
    \A t \in Threads : DrainedSome(t) =>
        /\ session.last_value = loc[t].applied[Len(loc[t].applied)]
        /\ session.last_time # None

\* A /api/start_pellet or /api/cancel_pellet request has answered.
StartOrCancelDone(t) == pc[t] = "ret" /\ loc[t].op \in {"start", "cancel"}

\* A /api/status request that found a just started sample (ACTIVE(id, 1), no slot
\* filled) and a queue that was not empty has answered.
FirstPollDone(t) ==
    /\ pc[t] = "ret" /\ loc[t].op = "poll"
    /\ obs.req.active /\ obs.req.pellet_id \in DOMAIN obs.req.pellets
    /\ obs.req.next_index = 1 /\ obs.req.queue # <<>>
    /\ \A i \in Slots : obs.req.pellets[obs.req.pellet_id].p[i] = None

\* A step that changes the queue is a put at its tail or a poll taking its head.
QueueStep ==
    reading_queue' # reading_queue =>
        \/ \E v \in Values : reading_queue' = Append(reading_queue, v)
        \/ /\ reading_queue' = Tail(reading_queue)
           /\ \E t \in Threads : loc[t].op = "poll" /\ pc[t] = "p_get" /\ pc'[t] = "p_lv"

\* What start, cancel and the first poll after a start leave behind.
BacklogKept ==
    /\ \A t \in Threads : StartOrCancelDone(t) => reading_queue = obs.req.queue
    /\ \A t \in Threads : FirstPollDone(t) =>
           /\ reading_queue = <<>>
           /\ \A k \in Slots : k <= Len(obs.req.queue) =>
                  pellets[obs.req.pellet_id].p[k] = obs.req.queue[k]

\* C20: start and cancel leave the queue as they found it, only a poll takes
\* values off it, and the values still queued when a sample is started (put
\* before the start or after it) go, oldest first, to slots 1, 2, ... of that
\* sample at the next poll.
C20_StaleValuesApplied ==
    []BacklogKept /\ [][QueueStep]_vars

\* C20 witness: the first request was a start, the second a poll; the value that
\* was queued before the start is in slot 1 of the sample started.
C20_Witness ==
    \E t \in Threads :
        /\ FirstPollDone(t) /\ nops = 2 /\ Len(sent) = 1
        /\ pellets[1].p[1] = sent[1] /\ pellets[1].p[2] = None

====
